---- MODULE Spec2Model ----
(***************************************************************************)
(* Model of onnx_to_trt/build_engine.py: the command-line front end, the   *)
(* EngineBuilder orchestration (create_network, print_layer_info,          *)
(* set_mixed_precision, create_engine) and the EngineCalibrator callbacks  *)
(* the TensorRT backend invokes during an INT8 build.                      *)
(***************************************************************************)
EXTENDS Integers, Sequences, FiniteSets

(***************************************************************************)
(* Bounds of the model.                                                    *)
(***************************************************************************)
MaxLayers == 2
MaxErrors == 2
MaxBatches == 2
MaxExtraCalls == 1
MaxMessages == 2
MaxCalls == 5
MaxCacheCalls == 4

(***************************************************************************)
(* Values.  Python's None is the string "None" for string-valued fields    *)
(* and 0 for device addresses.                                             *)
(***************************************************************************)
None == "None"
NoAddr == 0
DeviceAddrs == {4096, 8192}
DefaultCalibCache == "./calibration.cache"
DefaultCalibBatchSize == 8
Precisions == {"fp32", "fp16", "int8"}
Blobs == {<<1>>, <<2, 3>>}

\* trt.ILogger.Severity: INTERNAL_ERROR = 0 ... VERBOSE = 4
VERBOSE == 4
INFO == VERBOSE - 1
Severities == 0..VERBOSE
LogMessages == {"m1", "m2"}

\* bool(x) for the string-or-None values argparse produces
Truthy(x) == x \notin {None, ""}

(***************************************************************************)
(* Layer names, as sequences of characters.                                *)
(***************************************************************************)
ModulatedConv == <<"m","o","d","u","l","a","t","e","d","_","c","o","n","v">>
FragPow == ModulatedConv \o <<"/","P","o","w">>
FragReduceSum == ModulatedConv \o <<"/","R","e","d","u","c","e","S","u","m">>
FragAdd == ModulatedConv \o <<"/","A","d","d">>
FragSqrt == ModulatedConv \o <<"/","S","q","r","t">>
FragDiv == ModulatedConv \o <<"/","D","i","v">>

LayerNames ==
    { FragPow,
      <<"/">> \o FragAdd \o <<"_","1">>,
      FragReduceSum,
      <<"g","/">> \o FragDiv,
      ModulatedConv \o <<"/","p","o","w">>,
      ModulatedConv \o <<"/","M","u","l">>,
      <<"c","o","n","v","/","A","d","d">> }

\* Python's `frag in name` on str: frag occurs as a contiguous slice of name
StrIn(frag, name) ==
    \E i \in 0..(Len(name) - Len(frag)) :
        SubSeq(name, i + 1, i + Len(frag)) = frag

\* the network's first input: its shape and the item size of its dtype
InputShapes == { <<1, 3, 512, 512>> }
InputItemsizes == { 4 }

Networks ==
    UNION { [1..n -> [name : LayerNames, precision : {"UNSET"}]] : n \in 0..MaxLayers }

VARIABLES
    pc,             \* position of the program
    argv,           \* the command line as given
    args,           \* argparse's namespace
    exit_code,      \* 0 while running / on normal return, else the exit status
    builder,        \* trt.Builder: created, platform capability flags
    config,         \* builder config: flags, int8_calibrator
    network,        \* network definition: created, layers
    parser_errors,  \* number of errors the ONNX parser holds
    errlog,         \* log.error records, in order
    layers_file,    \* lines print_layer_info wrote
    calibrator,     \* fields of the EngineCalibrator instance
    device_mem,     \* device addresses allocated and not freed
    cache_file,     \* content of the file at args.calib_cache, None if absent
    engine_file,    \* the file at the engine path
    engine_dir,     \* whether the engine's directory exists
    bpc,            \* position of the backend inside build_engine
    logger,         \* the MyLogger instance, its log file and what it received
    hist            \* observations of the run

vars == << pc, argv, args, exit_code, builder, config, network, parser_errors,
           errlog, layers_file, calibrator, device_mem, cache_file, engine_file,
           engine_dir, bpc, logger, hist >>


NoCalibrator ==
    [ cache_file |-> None,
      image_batcher |-> FALSE,      \* whether an ImageBatcher is bound
      batch_size |-> 0,             \* image_batcher.batch_size
      shape |-> << >>,              \* image_batcher.shape
      itemsize |-> 0,               \* np.dtype(image_batcher.dtype).itemsize
      malformed |-> FALSE,          \* the source's batches differ from shape/dtype
      batch_allocation |-> NoAddr,
      generator |-> FALSE,          \* whether batch_generator is set
      remaining |-> 0 ]             \* batches the generator has yet to yield

NoLogger ==
    [ constructed |-> FALSE, min_severity |-> 0, log_path |-> None,
      file |-> << >>,       \* lines of the log file
      info |-> << >>,       \* messages passed to log.info
      received |-> << >> ]  \* calls of log(severity, msg), in order

NoHist ==
    [ steps |-> << >>,          \* steps of main entered, in order
      attached |-> 0,           \* EngineCalibrator instances attached to config
      cache_at_check |-> "unchecked",  \* os.path.exists(calib_cache) in create_engine
      batchers_made |-> 0,      \* ImageBatcher constructions
      source_batches |-> 0,     \* batches the bound source yields in all
      pulls |-> 0,              \* next() calls on the batch generator
      allocs |-> 0,             \* cudaMalloc calls
      alloc_sizes |-> << >>,    \* sizes passed to cudaMalloc
      batch_ptrs |-> << >>,     \* get_batch: number of names, list returned
      batch_errors |-> 0,       \* get_batch calls that raised
      batch_sizes |-> << >>,    \* get_batch_size results
      batch_returns |-> << >>,  \* get_batch results, NoAddr for None
      cache_reads |-> << >>,    \* read_calibration_cache results
      cache_writes |-> << >>,   \* write_calibration_cache calls
      build_calls |-> 0,        \* builder.build_engine calls
      build_config |-> << >>,   \* config handed to build_engine
      engine_writes |-> 0 ]     \* open(engine_path, "wb") calls

NoNetwork ==
    [ created |-> FALSE, layers |-> << >>, input_shape |-> << >>,
      input_itemsize |-> 0 ]

NoArgs ==
    [ onnx |-> None, engine |-> None, precision |-> None, calib_input |-> None,
      calib_cache |-> None, calib_batch_size |-> 0, verbose |-> FALSE ]

Init ==
    /\ pc = "parse_args"
    /\ argv \in [ onnx : {None, "model.onnx"},
                  engine : {None, "model.trt"},
                  precision : Precisions \cup {None},
                  calib_input : {None, "calib_dir"},
                  calib_cache : {None, "", "user.cache"},
                  verbose : BOOLEAN ]
    /\ args = NoArgs
    /\ exit_code = 0
    /\ builder = [ created |-> FALSE, platform_has_fast_fp16 |-> FALSE,
                   platform_has_fast_int8 |-> FALSE ]
    /\ config = [ flags |-> {}, int8_calibrator |-> FALSE ]
    /\ network = NoNetwork
    /\ parser_errors = 0
    /\ errlog = << >>
    /\ layers_file = [ exists |-> FALSE, lines |-> << >> ]
    /\ calibrator = NoCalibrator
    /\ device_mem = {}
    /\ cache_file \in { [ exists |-> FALSE, content |-> << >> ],
                        [ exists |-> TRUE, content |-> <<7>> ] }
    /\ (argv.calib_cache = "" => ~cache_file.exists)
    /\ engine_file \in {"absent", "stale"}
    /\ engine_dir = (engine_file = "stale")
    /\ bpc = "idle"
    /\ logger = NoLogger
    /\ hist = NoHist

(***************************************************************************)
(* __main__: argument parsing and pre-flight validation.                   *)
(***************************************************************************)
\* parser.parse_args(): options not given take their defaults
ParsedArgs(av) ==
    [ onnx |-> av.onnx,
      engine |-> av.engine,
      precision |-> IF av.precision = None THEN "fp16" ELSE av.precision,
      calib_input |-> av.calib_input,
      calib_cache |-> IF av.calib_cache = None THEN DefaultCalibCache
                      ELSE av.calib_cache,
      calib_batch_size |-> DefaultCalibBatchSize,
      verbose |-> av.verbose ]

ParseArgs ==
    /\ pc = "parse_args"
    /\ args' = ParsedArgs(argv)
    /\ pc' = "validate"
    /\ UNCHANGED << argv, exit_code, builder, config, network, parser_errors,
                    errlog, layers_file, calibrator, device_mem, cache_file,
                    engine_file, engine_dir, bpc, hist, logger >>

\* the two checks before main(args); TRUE when main is entered
ArgsAccepted(a) ==
    /\ Truthy(a.onnx) /\ Truthy(a.engine)
    /\ ~(a.precision = "int8" /\ ~(Truthy(a.calib_input) \/ Truthy(a.calib_cache)))

Validate ==
    /\ pc = "validate"
    /\ IF ArgsAccepted(args)
          THEN /\ pc' = "ctor"
               /\ UNCHANGED exit_code
          ELSE /\ pc' = "exit"
               /\ exit_code' = 1
    /\ UNCHANGED << argv, args, builder, config, network, parser_errors,
                    errlog, layers_file, calibrator, device_mem, cache_file,
                    engine_file, engine_dir, bpc, hist, logger >>

(***************************************************************************)
(* MyLogger.                                                               *)
(***************************************************************************)
\* MyLogger.__init__(min_severity, log_path)
MyLogger(lg, min_severity, log_path) ==
    [ lg EXCEPT !.constructed = TRUE,
                !.min_severity = min_severity,
                !.log_path = log_path ]

\* MyLogger.log(severity, msg): a line appended to the log file, or, without
\* a log path, passed to log.info
MyLoggerLog(lg, severity, msg) ==
    IF severity >= lg.min_severity
       THEN IF lg.log_path # None
               THEN [ lg EXCEPT !.file = Append(@, msg) ]
               ELSE [ lg EXCEPT !.info = Append(@, msg) ]
       ELSE lg

\* the logger EngineBuilder.__init__ is documented to build: quieter unless
\* verbose is set
EngineBuilderLogger_Documented(lg, verbose, log_path) ==
    LET l == MyLogger(lg, INFO, log_path)
    IN IF verbose THEN [ l EXCEPT !.min_severity = VERBOSE ] ELSE l

\* the logger EngineBuilder.__init__ builds
EngineBuilderLogger(lg, verbose, log_path) ==
    LET l == MyLogger(lg, VERBOSE, log_path)
    IN IF verbose THEN [ l EXCEPT !.min_severity = VERBOSE ] ELSE l

\* args.onnx.replace('.onnx', '.log')
LogPath(onnx) == IF onnx = "model.onnx" THEN "model.log" ELSE onnx

(***************************************************************************)
(* EngineBuilder.                                                          *)
(***************************************************************************)
EngineBuilderInit ==
    /\ pc = "ctor"
    /\ logger' = EngineBuilderLogger(logger, args.verbose, LogPath(args.onnx))
    /\ builder' = [ builder EXCEPT !.created = TRUE ]
    /\ config' = [ flags |-> {}, int8_calibrator |-> FALSE ]
    /\ pc' = "create_network"
    /\ UNCHANGED << argv, args, exit_code, network, parser_errors, errlog,
                    layers_file, calibrator, device_mem, cache_file,
                    engine_file, engine_dir, bpc, hist >>

ParserError(i) == [ msg |-> "parser_error", index |-> i ]
FailedToLoad == [ msg |-> "failed_to_load", index |-> -1 ]

\* the error loop reporting only the first error
LogParserErrors_FirstOnly(log, error, num_errors) ==
    IF num_errors > 0 THEN Append(log, ParserError(0)) ELSE log

\* for error in range(num_errors): log.error(parser.get_error(error))
RECURSIVE LogParserErrors(_, _, _)
LogParserErrors(log, error, num_errors) ==
    IF error >= num_errors THEN log
    ELSE LogParserErrors(Append(log, ParserError(error)), error + 1, num_errors)

CreateNetworkFail ==
    /\ pc = "create_network"
    /\ \E n \in 0..MaxErrors :
        /\ parser_errors' = n
        /\ errlog' = LogParserErrors(Append(errlog, FailedToLoad), 0, n)
    /\ network' = [ network EXCEPT !.created = TRUE ]
    /\ hist' = [ hist EXCEPT !.steps = Append(@, "create_network") ]
    /\ exit_code' = 1
    /\ pc' = "exit"
    /\ UNCHANGED << argv, args, builder, config, layers_file, calibrator,
                    device_mem, cache_file, engine_file, engine_dir, bpc, logger >>

CreateNetworkOk ==
    /\ pc = "create_network"
    /\ \E net \in Networks, shape \in InputShapes, itemsize \in InputItemsizes :
          network' = [ created |-> TRUE, layers |-> net,
                       input_shape |-> shape, input_itemsize |-> itemsize ]
    /\ hist' = [ hist EXCEPT !.steps = Append(@, "create_network") ]
    /\ pc' = "print_layer_info"
    /\ UNCHANGED << argv, args, exit_code, builder, config, parser_errors,
                    errlog, layers_file, calibrator, device_mem, cache_file,
                    engine_file, engine_dir, bpc, logger >>

\* the parse succeeds but no input gives a positive batch size: the assert fails
CreateNetworkAssertFail ==
    /\ pc = "create_network"
    /\ network' = [ network EXCEPT !.created = TRUE ]
    /\ hist' = [ hist EXCEPT !.steps = Append(@, "create_network") ]
    /\ exit_code' = 1
    /\ pc' = "failed"
    /\ UNCHANGED << argv, args, builder, config, parser_errors, errlog,
                    layers_file, calibrator, device_mem, cache_file,
                    engine_file, engine_dir, bpc, logger >>

PrintLayerInfo ==
    /\ pc = "print_layer_info"
    /\ layers_file' = [ exists |-> TRUE,
                        lines |-> [ i \in DOMAIN network.layers |->
                                        network.layers[i].name ] ]
    /\ hist' = [ hist EXCEPT !.steps = Append(@, "print_layer_info") ]
    /\ pc' = "set_mixed_precision"
    /\ UNCHANGED << argv, args, exit_code, builder, config, network,
                    parser_errors, errlog, calibrator, device_mem, cache_file,
                    engine_file, engine_dir, bpc, logger >>

\* the any([...]) with the Add fragment lacking its modulated_conv prefix
MixedPrecisionMatch_BareAdd(name) ==
    \/ StrIn(FragPow, name)
    \/ StrIn(FragReduceSum, name)
    \/ StrIn(<<"/","A","d","d">>, name)
    \/ StrIn(FragSqrt, name)
    \/ StrIn(FragDiv, name)

\* the any([...]) of set_mixed_precision
MixedPrecisionMatch(name) ==
    \/ StrIn(FragPow, name)
    \/ StrIn(FragReduceSum, name)
    \/ StrIn(FragAdd, name)
    \/ StrIn(FragSqrt, name)
    \/ StrIn(FragDiv, name)

SetMixedPrecision ==
    /\ pc = "set_mixed_precision"
    /\ config' = [ config EXCEPT !.flags = @ \cup {"STRICT_TYPES"} ]
    /\ network' = [ network EXCEPT !.layers =
            [ i \in DOMAIN @ |->
                IF MixedPrecisionMatch(@[i].name)
                   THEN [ @[i] EXCEPT !.precision = "FLOAT" ]
                   ELSE @[i] ] ]
    /\ hist' = [ hist EXCEPT !.steps = Append(@, "set_mixed_precision") ]
    /\ pc' = "create_engine"
    /\ UNCHANGED << argv, args, exit_code, builder, parser_errors, errlog,
                    layers_file, calibrator, device_mem, cache_file,
                    engine_file, engine_dir, bpc, logger >>


(***************************************************************************)
(* EngineCalibrator.                                                       *)
(***************************************************************************)
\* __init__(cache_file)
EngineCalibrator(cache_path) == [ NoCalibrator EXCEPT !.cache_file = cache_path ]

\* cudaMalloc: an address not in use
CudaMalloc(mem) == CHOOSE a \in DeviceAddrs : a \notin mem

RECURSIVE Prod(_)
\* np.prod(shape)
Prod(shape) == IF shape = << >> THEN 1 ELSE Head(shape) * Prod(Tail(shape))

\* the size set_image_batcher passes to cudaMalloc
StagingSize(src) == src.itemsize * Prod(src.shape)

\* set_image_batcher up to the cudaMalloc call, which raises
SetImageBatcherNoMemory(cal, src) ==
    [ cal EXCEPT !.image_batcher = TRUE,
                 !.batch_size = src.batch_size,
                 !.shape = src.shape,
                 !.itemsize = src.itemsize,
                 !.malformed = src.malformed ]

\* set_image_batcher, given the source and the address cudaMalloc returned
SetImageBatcher(cal, src, addr) ==
    [ SetImageBatcherNoMemory(cal, src) EXCEPT
                 !.batch_allocation = addr,
                 !.generator = TRUE,
                 !.remaining = src.num_batches ]

\* get_batch_size that reports the source's batch size only while batches
\* remain
GetBatchSize_WhileStreaming(cal) ==
    IF cal.image_batcher /\ cal.remaining > 0 THEN cal.batch_size ELSE 1

\* get_batch_size
GetBatchSize(cal) == IF cal.image_batcher THEN cal.batch_size ELSE 1

\* get_batch that answers the end of the stream with the staging address again
GetBatch_Stale(cal, names) ==
    IF ~cal.image_batcher
       THEN [ ret |-> NoAddr, ptrs |-> << >>, cal |-> cal, pulled |-> FALSE ]
       ELSE IF cal.remaining > 0
               THEN [ ret |-> cal.batch_allocation,
                      ptrs |-> << cal.batch_allocation >>,
                      cal |-> [ cal EXCEPT !.remaining = @ - 1 ],
                      pulled |-> TRUE ]
               ELSE [ ret |-> cal.batch_allocation,
                      ptrs |-> << cal.batch_allocation >>,
                      cal |-> cal, pulled |-> TRUE ]

\* get_batch that returns one pointer for each requested name
GetBatch_PerName(cal, names) ==
    IF ~cal.image_batcher
       THEN [ ret |-> NoAddr, ptrs |-> << >>, cal |-> cal, pulled |-> FALSE ]
       ELSE IF cal.remaining > 0
               THEN [ ret |-> cal.batch_allocation,
                      ptrs |-> [ i \in 1..Len(names) |-> cal.batch_allocation ],
                      cal |-> [ cal EXCEPT !.remaining = @ - 1 ],
                      pulled |-> TRUE ]
               ELSE [ ret |-> NoAddr, ptrs |-> << >>, cal |-> cal, pulled |-> TRUE ]

\* get_batch(names): the address returned (NoAddr for None), the list
\* returned (empty for None), the calibrator afterwards, and whether next()
\* was called on the generator
GetBatch(cal, names) ==
    IF ~cal.image_batcher
       THEN [ ret |-> NoAddr, ptrs |-> << >>, cal |-> cal, pulled |-> FALSE ]
       ELSE IF cal.remaining > 0
               THEN [ ret |-> cal.batch_allocation,
                      ptrs |-> << cal.batch_allocation >>,
                      cal |-> [ cal EXCEPT !.remaining = @ - 1 ],
                      pulled |-> TRUE ]
               ELSE [ ret |-> NoAddr, ptrs |-> << >>, cal |-> cal, pulled |-> TRUE ]

\* read_calibration_cache
ReadCalibrationCache(file) ==
    IF file.exists THEN [ found |-> TRUE, content |-> file.content ]
    ELSE [ found |-> FALSE, content |-> << >> ]

\* write_calibration_cache that opens the file in append mode
WriteCalibrationCache_Append(file, cache) ==
    [ exists |-> TRUE, content |-> file.content \o cache ]

\* write_calibration_cache that opens the file and writes nothing to it
WriteCalibrationCache_NoWrite(file, cache) == [ exists |-> TRUE, content |-> << >> ]

\* write_calibration_cache: open(cache_file, "wb"); f.write(cache)
WriteCalibrationCache(file, cache) == [ exists |-> TRUE, content |-> cache ]

(***************************************************************************)
(* EngineBuilder.create_engine up to the build_engine call.                *)
(***************************************************************************)
\* the precision branches with the calibrator assignment left out
ApplyPrecision_NoAttach(cfg, precision, has_fp16, has_int8) ==
    IF precision = "fp16"
       THEN IF ~has_fp16 THEN cfg
            ELSE [ cfg EXCEPT !.flags = @ \cup {"FP16"} ]
    ELSE IF precision = "int8"
       THEN IF ~has_int8 THEN cfg
            ELSE [ cfg EXCEPT !.flags = @ \cup {"INT8"} ]
    ELSE cfg

\* the precision branches without the platform capability checks
ApplyPrecision_NoCapabilityCheck(cfg, precision, has_fp16, has_int8) ==
    IF precision = "fp16"
       THEN [ cfg EXCEPT !.flags = @ \cup {"FP16"} ]
    ELSE IF precision = "int8"
       THEN [ cfg EXCEPT !.flags = @ \cup {"INT8"}, !.int8_calibrator = TRUE ]
    ELSE cfg

\* the precision branches with the final else treated like the CLI default
ApplyPrecision_ElseFp16(cfg, precision, has_fp16, has_int8) ==
    IF precision = "int8"
       THEN IF ~has_int8 THEN cfg
            ELSE [ cfg EXCEPT !.flags = @ \cup {"INT8"}, !.int8_calibrator = TRUE ]
    ELSE [ cfg EXCEPT !.flags = @ \cup {"FP16"} ]

\* the precision branches on the builder config
ApplyPrecision(cfg, precision, has_fp16, has_int8) ==
    IF precision = "fp16"
       THEN IF ~has_fp16 THEN cfg
            ELSE [ cfg EXCEPT !.flags = @ \cup {"FP16"} ]
    ELSE IF precision = "int8"
       THEN IF ~has_int8 THEN cfg
            ELSE [ cfg EXCEPT !.flags = @ \cup {"INT8"}, !.int8_calibrator = TRUE ]
    ELSE cfg

\* the int8 branch binding an ImageBatcher whether or not the cache exists
NeedsImageBatcher_Always(cache_exists) == TRUE

\* the int8 branch never binding an ImageBatcher
NeedsImageBatcher_Never(cache_exists) == FALSE

\* whether the int8 branch goes on to construct and bind an ImageBatcher
NeedsImageBatcher(cache_exists) == ~cache_exists

\* ImageBatcher(calib_input, ...): the constructor raises, or gives a source
\* that yields a finite number of batches and then ends for good
ImageBatcher(calib_input, shape, itemsize) ==
    { [ ok |-> FALSE, num_batches |-> 0, batch_size |-> Head(shape),
        shape |-> shape, itemsize |-> itemsize, malformed |-> FALSE ] } \cup
    ( IF Truthy(calib_input)
         THEN { [ ok |-> TRUE, num_batches |-> k, batch_size |-> Head(shape),
                  shape |-> shape, itemsize |-> itemsize, malformed |-> FALSE ] :
                k \in 0..MaxBatches }
         ELSE {} )

\* calib_shape = [calib_batch_size] + list(inputs[0].shape[1:])
CalibShape(calib_batch_size, input_shape) ==
    << calib_batch_size >> \o Tail(input_shape)

\* the call self.builder.build_engine(self.network, self.config)
CallBuildEngine(h, cfg) ==
    [ h EXCEPT !.steps = Append(@, "build_engine"),
               !.build_calls = @ + 1,
               !.build_config = Append(@, cfg) ]

\* create_engine from its first line to the build_engine call.  With a
\* calibrator attached the outcome is one of: the cache file exists;
\* ImageBatcher(...) raises; cudaMalloc fails; the source is bound and the
\* staging buffer allocated.  The platform capability is read here.
CreateEngine ==
    /\ pc = "create_engine"
    /\ engine_dir' = TRUE
    /\ \E has_fp16, has_int8 \in BOOLEAN :
        /\ (args.precision # "fp16" => ~has_fp16)
        /\ (args.precision # "int8" => ~has_int8)
        /\ builder' = [ builder EXCEPT !.platform_has_fast_fp16 = has_fp16,
                                       !.platform_has_fast_int8 = has_int8 ]
        /\ LET cfg == ApplyPrecision(config, args.precision, has_fp16, has_int8)
               cal == EngineCalibrator(args.calib_cache)
               exists == args.calib_cache # "" /\ cache_file.exists
               h == [ hist EXCEPT !.steps = Append(@, "create_engine") ]
               h0 == [ h EXCEPT !.attached = @ + 1,
                                !.cache_at_check =
                                    IF exists THEN "present" ELSE "absent" ]
           IN /\ config' = cfg
              /\ IF ~cfg.int8_calibrator
                    THEN /\ hist' = CallBuildEngine(h, cfg)
                         /\ pc' = "build" /\ bpc' = "start"
                         /\ UNCHANGED << calibrator, device_mem, exit_code >>
                 ELSE IF ~NeedsImageBatcher(exists)
                    THEN /\ calibrator' = cal
                         /\ hist' = CallBuildEngine(h0, cfg)
                         /\ pc' = "build" /\ bpc' = "start"
                         /\ UNCHANGED << device_mem, exit_code >>
                 ELSE \E src \in ImageBatcher(args.calib_input,
                                   CalibShape(args.calib_batch_size, network.input_shape),
                                   network.input_itemsize),
                         malloc_ok \in BOOLEAN :
                      IF ~src.ok
                         THEN \* ImageBatcher(...) raises
                              /\ calibrator' = cal
                              /\ hist' = h0
                              /\ pc' = "failed" /\ exit_code' = 1
                              /\ UNCHANGED << device_mem, bpc >>
                      ELSE IF ~malloc_ok
                         THEN \* cuda_call raises on the cudaMalloc status
                              /\ calibrator' = SetImageBatcherNoMemory(cal, src)
                              /\ hist' = [ h0 EXCEPT
                                     !.batchers_made = @ + 1,
                                     !.source_batches = src.num_batches ]
                              /\ pc' = "failed" /\ exit_code' = 1
                              /\ UNCHANGED << device_mem, bpc >>
                      ELSE LET addr == CudaMalloc(device_mem)
                           IN /\ calibrator' = SetImageBatcher(cal, src, addr)
                              /\ device_mem' = device_mem \cup {addr}
                              /\ hist' = CallBuildEngine(
                                     [ h0 EXCEPT
                                         !.batchers_made = @ + 1,
                                         !.source_batches = src.num_batches,
                                         !.allocs = @ + 1,
                                         !.alloc_sizes =
                                             Append(@, StagingSize(src)) ], cfg)
                              /\ pc' = "build" /\ bpc' = "start"
                              /\ UNCHANGED exit_code
    /\ UNCHANGED << argv, args, network, parser_errors, errlog, layers_file,
                    cache_file, engine_file, logger >>

(***************************************************************************)
(* builder.build_engine: the backend, which calls back into the attached   *)
(* calibrator.  It asks the batch size, reads the cache, and if there is   *)
(* none measures: get_batch until None, then write_calibration_cache once. *)
(* It may call get_batch again after the end of the stream or after a      *)
(* cache hit (at most MaxExtraCalls further calls), and it may give up and *)
(* return no engine at any point.                                          *)
(***************************************************************************)
\* the names the backend passes to get_batch: the network's one input
NetworkInputNames == << "input" >>

\* the record of one get_batch call
ObserveGetBatch(h, names, r) ==
    [ h EXCEPT !.batch_returns = Append(@, r.ret),
               !.batch_ptrs = Append(@, [ names |-> Len(names), ptrs |-> r.ptrs ]),
               !.pulls = @ + (IF r.pulled THEN 1 ELSE 0) ]

\* the record of one get_batch_size call
ObserveGetBatchSize(h, cal) ==
    [ h EXCEPT !.batch_sizes = Append(@,
        [ ret |-> GetBatchSize(cal), bound |-> cal.image_batcher,
          remaining |-> cal.remaining, calls |-> Len(h.batch_returns) ]) ]

\* the record of one read_calibration_cache call
ObserveReadCache(h, file, r) ==
    [ h EXCEPT !.cache_reads = Append(@,
        [ found |-> r.found, content |-> r.content, existed |-> file.exists,
          writes |-> Len(h.cache_writes) ]) ]

\* the record of one write_calibration_cache call
ObserveWriteCache(h, cache) ==
    [ h EXCEPT !.cache_writes = Append(@,
        [ cache |-> cache, calls |-> Len(h.batch_returns) ]) ]

BackendGetBatchSize ==
    /\ pc = "build" /\ bpc = "start"
    /\ config.int8_calibrator
    /\ hist' = ObserveGetBatchSize(hist, calibrator)
    /\ bpc' = "read_cache"
    /\ UNCHANGED << pc, argv, args, exit_code, builder, config, network,
                    parser_errors, errlog, layers_file, calibrator, device_mem,
                    cache_file, engine_file, engine_dir, logger >>

BackendReadCache ==
    /\ pc = "build" /\ bpc = "read_cache"
    /\ LET file == IF calibrator.cache_file = ""
                      THEN [ exists |-> FALSE, content |-> << >> ]
                      ELSE cache_file
           r == ReadCalibrationCache(file)
       IN /\ hist' = ObserveReadCache(hist, file, r)
          /\ bpc' = IF r.found THEN "cached" ELSE "measure"
    /\ UNCHANGED << pc, argv, args, exit_code, builder, config, network,
                    parser_errors, errlog, layers_file, calibrator, device_mem,
                    cache_file, engine_file, engine_dir, logger >>

BackendGetBatch ==
    /\ pc = "build"
    /\ \/ bpc = "measure"
       \/ /\ bpc = "ended"
          /\ Len(hist.batch_returns) < hist.source_batches + 1 + MaxExtraCalls
       \/ /\ bpc = "cached"
          /\ Len(hist.batch_returns) < MaxExtraCalls
    /\ LET r == GetBatch(calibrator, NetworkInputNames)
       IN /\ calibrator' = r.cal
          /\ hist' = ObserveGetBatch(hist, NetworkInputNames, r)
          /\ bpc' = IF bpc = "measure" /\ r.ret = NoAddr THEN "ended" ELSE bpc
    /\ UNCHANGED << pc, argv, args, exit_code, builder, config, network,
                    parser_errors, errlog, layers_file, device_mem, cache_file,
                    engine_file, engine_dir, logger >>

\* open("", "wb") raises; the exception stays inside the callback
BackendWriteCache ==
    /\ pc = "build" /\ bpc = "ended"
    /\ \E cache \in Blobs :
        /\ cache_file' = IF calibrator.cache_file = "" THEN cache_file
                         ELSE WriteCalibrationCache(cache_file, cache)
        /\ hist' = ObserveWriteCache(hist, cache)
    /\ bpc' = "written"
    /\ UNCHANGED << pc, argv, args, exit_code, builder, config, network,
                    parser_errors, errlog, layers_file, calibrator, device_mem,
                    engine_file, engine_dir, logger >>

\* build_engine returns an engine; the with statement opens the engine file
\* and writes engine.serialize() to it
BuildEngineOk ==
    /\ pc = "build"
    /\ \/ bpc = "start" /\ ~config.int8_calibrator
       \/ bpc \in {"cached", "written"}
    /\ engine_file' = "engine"
    /\ hist' = [ hist EXCEPT !.steps = Append(@, "serialize"),
                             !.engine_writes = @ + 1 ]
    /\ bpc' = "returned"
    /\ pc' = "done"
    /\ UNCHANGED << argv, args, exit_code, builder, config, network,
                    parser_errors, errlog, layers_file, calibrator, device_mem,
                    cache_file, engine_dir, logger >>

\* the with statement with its items swapped: the engine file is opened
\* (and truncated) before build_engine is called
BuildEngineFail_OpenFirst ==
    /\ pc = "build"
    /\ bpc' = "returned"
    /\ pc' = "failed"
    /\ exit_code' = 1
    /\ engine_file' = "empty"
    /\ hist' = [ hist EXCEPT !.engine_writes = @ + 1 ]
    /\ UNCHANGED << argv, args, builder, config, network, parser_errors,
                    errlog, layers_file, calibrator, device_mem, cache_file,
                    engine_dir, logger >>

\* a None result answered by calling build_engine again
BuildEngineFail_Retry ==
    /\ pc = "build"
    /\ bpc' = "start"
    /\ hist' = CallBuildEngine(hist, config)
    /\ UNCHANGED << pc, argv, args, exit_code, builder, config, network,
                    parser_errors, errlog, layers_file, calibrator, device_mem,
                    cache_file, engine_file, engine_dir, logger >>

\* build_engine returns None: entering the with statement raises before
\* open(engine_path, "wb") is evaluated
BuildEngineFail ==
    /\ pc = "build"
    /\ bpc' = "returned"
    /\ pc' = "failed"
    /\ exit_code' = 1
    /\ UNCHANGED << argv, args, builder, config, network, parser_errors,
                    errlog, layers_file, calibrator, device_mem, cache_file,
                    engine_file, engine_dir, hist, logger >>

Next ==
    \/ ParseArgs
    \/ Validate
    \/ EngineBuilderInit
    \/ CreateNetworkFail
    \/ CreateNetworkAssertFail
    \/ CreateNetworkOk
    \/ PrintLayerInfo
    \/ SetMixedPrecision
    \/ CreateEngine
    \/ BackendGetBatchSize
    \/ BackendReadCache
    \/ BackendGetBatch
    \/ BackendWriteCache
    \/ BuildEngineOk
    \/ BuildEngineFail

Spec == Init /\ [][Next]_vars

(***************************************************************************)
(* The builder's logger on its own: EngineBuilder constructed once with    *)
(* verbose set and once without, the two loggers then receiving the same   *)
(* messages from the backend.  logger[v] is the logger of the run whose    *)
(* verbose argument is v.                                                  *)
(***************************************************************************)
\* the variables of the program a client of one of its classes leaves alone
ProgramIdle ==
    /\ argv = NoArgs
    /\ args = NoArgs
    /\ exit_code = 0
    /\ builder = [ created |-> FALSE, platform_has_fast_fp16 |-> FALSE,
                   platform_has_fast_int8 |-> FALSE ]
    /\ config = [ flags |-> {}, int8_calibrator |-> FALSE ]
    /\ network = NoNetwork
    /\ parser_errors = 0
    /\ errlog = << >>
    /\ layers_file = [ exists |-> FALSE, lines |-> << >> ]
    /\ engine_file = "absent"
    /\ engine_dir = FALSE
    /\ bpc = "idle"

LoggerInit ==
    /\ pc = "logger_ctor"
    /\ logger = [ v \in BOOLEAN |-> NoLogger ]
    /\ calibrator = NoCalibrator
    /\ device_mem = {}
    /\ cache_file = [ exists |-> FALSE, content |-> << >> ]
    /\ hist = NoHist
    /\ ProgramIdle

\* EngineBuilder(verbose, log_path), for both values of verbose
LoggerConstruct ==
    /\ pc = "logger_ctor"
    /\ \E log_path \in {None, "model.log"} :
          logger' = [ v \in BOOLEAN |-> EngineBuilderLogger(logger[v], v, log_path) ]
    /\ pc' = "logging"
    /\ UNCHANGED << argv, args, exit_code, builder, config, network,
                    parser_errors, errlog, layers_file, calibrator, device_mem,
                    cache_file, engine_file, engine_dir, bpc, hist >>

\* the backend calls trt_logger.log(severity, msg), in both runs alike
LoggerLog ==
    /\ pc = "logging"
    /\ Len(logger[TRUE].received) < MaxMessages
    /\ \E severity \in Severities, msg \in LogMessages :
          logger' = [ v \in BOOLEAN |->
                        [ MyLoggerLog(logger[v], severity, msg) EXCEPT
                            !.received = Append(@, [ severity |-> severity,
                                                     msg |-> msg ]) ] ]
    /\ UNCHANGED << pc, argv, args, exit_code, builder, config, network,
                    parser_errors, errlog, layers_file, calibrator, device_mem,
                    cache_file, engine_file, engine_dir, bpc, hist >>

LoggerNext ==
    \/ LoggerConstruct
    \/ LoggerLog

LoggerSpec == LoggerInit /\ [][LoggerNext]_vars

(***************************************************************************)
(* An EngineCalibrator driven through its batch interface by any caller:   *)
(* a source is bound at most once, as create_engine does, and              *)
(* get_batch_size and get_batch are called in any order, before and after. *)
(* A source may be malformed: the batches it yields differ in shape or     *)
(* dtype from what it declares.  The caller stops at the first exception.  *)
(***************************************************************************)
CalibBatchSizes == { 2, DefaultCalibBatchSize }
SourceInputShapes == { <<1, 3, 4, 4>>, <<1, 3, 512, 512>> }
SourceItemsizes == { 2, 4 }

\* the names a caller may pass to get_batch
NameLists == { << "input" >>, << "input", "aux" >> }

\* the batch sources a caller may bind
BatchSources ==
    { [ src EXCEPT !.malformed = m ] :
        src \in { b \in UNION { ImageBatcher("calib_dir", CalibShape(n, shape), size) :
                                  n \in CalibBatchSizes, shape \in SourceInputShapes,
                                  size \in SourceItemsizes } : b.ok },
        m \in BOOLEAN }

\* calls made on the calibrator so far
CalibCalls == Len(hist.batch_sizes) + Len(hist.batch_returns) + hist.batch_errors

CalibInit ==
    /\ pc = "calib"
    /\ calibrator = EngineCalibrator("user.cache")
    /\ device_mem = {}
    /\ cache_file = [ exists |-> FALSE, content |-> << >> ]
    /\ logger = NoLogger
    /\ hist = NoHist
    /\ ProgramIdle

\* calibrator.set_image_batcher(src)
CalSetImageBatcher ==
    /\ pc = "calib"
    /\ ~calibrator.image_batcher
    /\ \E src \in BatchSources, malloc_ok \in BOOLEAN :
          IF ~malloc_ok
             THEN /\ calibrator' = SetImageBatcherNoMemory(calibrator, src)
                  /\ hist' = [ hist EXCEPT !.batchers_made = @ + 1,
                                           !.source_batches = src.num_batches ]
                  /\ pc' = "calib_failed"
                  /\ UNCHANGED device_mem
             ELSE LET addr == CudaMalloc(device_mem)
                  IN /\ calibrator' = SetImageBatcher(calibrator, src, addr)
                     /\ device_mem' = device_mem \cup {addr}
                     /\ hist' = [ hist EXCEPT
                                    !.batchers_made = @ + 1,
                                    !.source_batches = src.num_batches,
                                    !.allocs = @ + 1,
                                    !.alloc_sizes = Append(@, StagingSize(src)) ]
                     /\ UNCHANGED pc
    /\ UNCHANGED << argv, args, exit_code, builder, config, network,
                    parser_errors, errlog, layers_file, cache_file,
                    engine_file, engine_dir, bpc, logger >>

\* calibrator.get_batch_size()
CalGetBatchSize ==
    /\ pc = "calib"
    /\ CalibCalls < MaxCalls
    /\ hist' = ObserveGetBatchSize(hist, calibrator)
    /\ UNCHANGED << pc, argv, args, exit_code, builder, config, network,
                    parser_errors, errlog, layers_file, calibrator, device_mem,
                    cache_file, engine_file, engine_dir, bpc, logger >>

\* calibrator.get_batch(names) returns
CalGetBatch ==
    /\ pc = "calib"
    /\ CalibCalls < MaxCalls
    /\ \E names \in NameLists :
         LET r == GetBatch(calibrator, names)
         IN /\ calibrator' = r.cal
            /\ hist' = ObserveGetBatch(hist, names, r)
    /\ UNCHANGED << pc, argv, args, exit_code, builder, config, network,
                    parser_errors, errlog, layers_file, device_mem, cache_file,
                    engine_file, engine_dir, bpc, logger >>

\* calibrator.get_batch(names) raises: the batch pulled from a malformed
\* source does not fit the staging buffer and the copy to the device fails
CalGetBatchRaises ==
    /\ pc = "calib"
    /\ CalibCalls < MaxCalls
    /\ calibrator.image_batcher /\ calibrator.malformed
    /\ calibrator.remaining > 0
    /\ calibrator' = [ calibrator EXCEPT !.remaining = @ - 1 ]
    /\ hist' = [ hist EXCEPT !.pulls = @ + 1, !.batch_errors = @ + 1 ]
    /\ pc' = "calib_failed"
    /\ UNCHANGED << argv, args, exit_code, builder, config, network,
                    parser_errors, errlog, layers_file, device_mem, cache_file,
                    engine_file, engine_dir, bpc, logger >>

CalibNext ==
    \/ CalSetImageBatcher
    \/ CalGetBatchSize
    \/ CalGetBatch
    \/ CalGetBatchRaises

CalibSpec == CalibInit /\ [][CalibNext]_vars

(***************************************************************************)
(* An EngineCalibrator driven through its cache interface by any caller:   *)
(* write_calibration_cache and read_calibration_cache in any order on one  *)
(* cache path, which holds a file or not at the start.                     *)
(***************************************************************************)
\* calls made on the calibrator so far
CacheCalls == Len(hist.cache_reads) + Len(hist.cache_writes)

CacheInit ==
    /\ pc = "cache"
    /\ calibrator = EngineCalibrator("user.cache")
    /\ device_mem = {}
    /\ cache_file \in { [ exists |-> FALSE, content |-> << >> ],
                        [ exists |-> TRUE, content |-> <<7>> ] }
    /\ logger = NoLogger
    /\ hist = NoHist
    /\ ProgramIdle

\* calibrator.read_calibration_cache()
CacheRead ==
    /\ pc = "cache"
    /\ CacheCalls < MaxCacheCalls
    /\ hist' = ObserveReadCache(hist, cache_file, ReadCalibrationCache(cache_file))
    /\ UNCHANGED << pc, argv, args, exit_code, builder, config, network,
                    parser_errors, errlog, layers_file, calibrator, device_mem,
                    cache_file, engine_file, engine_dir, bpc, logger >>

\* calibrator.write_calibration_cache(cache)
CacheWrite ==
    /\ pc = "cache"
    /\ CacheCalls < MaxCacheCalls
    /\ \E cache \in Blobs :
        /\ cache_file' = WriteCalibrationCache(cache_file, cache)
        /\ hist' = ObserveWriteCache(hist, cache)
    /\ UNCHANGED << pc, argv, args, exit_code, builder, config, network,
                    parser_errors, errlog, layers_file, calibrator, device_mem,
                    engine_file, engine_dir, bpc, logger >>

CacheNext ==
    \/ CacheRead
    \/ CacheWrite

CacheSpec == CacheInit /\ [][CacheNext]_vars


(***************************************************************************)
(* Properties.                                                             *)
(***************************************************************************)
Entered(step) == \E i \in DOMAIN hist.steps : hist.steps[i] = step
RunEnded == pc \in {"done", "failed", "exit"}
SourceBound == calibrator.image_batcher /\ calibrator.generator

\* C1: with a bound batch source that yields k batches, the first k get_batch
\* calls return the staging buffer address and every later call returns None
C1_GetBatchStream ==
    SourceBound =>
        /\ calibrator.batch_allocation # NoAddr
        /\ \A i \in DOMAIN hist.batch_returns :
              hist.batch_returns[i] =
                 IF i <= hist.source_batches THEN calibrator.batch_allocation
                 ELSE NoAddr

C1_Witness ==
    /\ SourceBound
    /\ hist.source_batches >= 1
    /\ Len(hist.batch_returns) >= hist.source_batches + 2

\* C2: if the cache file exists when create_engine checks it in an int8
\* build, no batch source is constructed or bound, no staging buffer is
\* allocated, no batch is pulled and every get_batch call returns None
C2_CacheHitTouchesNoSource ==
    hist.cache_at_check = "present" =>
        /\ hist.batchers_made = 0
        /\ ~calibrator.image_batcher
        /\ hist.allocs = 0 /\ device_mem = {}
        /\ calibrator.batch_allocation = NoAddr
        /\ hist.pulls = 0
        /\ \A i \in DOMAIN hist.batch_returns : hist.batch_returns[i] = NoAddr

C2_Witness ==
    /\ hist.cache_at_check = "present"
    /\ pc = "done"
    /\ Len(hist.batch_returns) >= 1

\* C3: no run ends, and no measurement pass ends, with an allocated staging
\* buffer that has not been released
C3_StagingBufferReleased ==
    (RunEnded \/ bpc \in {"ended", "written"}) => device_mem = {}

\* C4 as stated: int8 attaches exactly one calibrator and fp32 none, for every
\* value of the other arguments and of the platform capability flags
C4_Int8AlwaysAttaches ==
    Entered("create_engine") =>
        /\ args.precision = "int8" =>
              hist.attached = 1 /\ config.int8_calibrator
        /\ args.precision = "fp32" =>
              hist.attached = 0 /\ ~config.int8_calibrator

\* C4 amended: int8 attaches exactly one calibrator when the platform has
\* fast int8 and none when it has not; fp32 attaches none
C4_Int8AttachesWhenSupported ==
    Entered("create_engine") =>
        /\ (args.precision = "int8" /\ builder.platform_has_fast_int8) =>
              hist.attached = 1 /\ config.int8_calibrator
        /\ (args.precision = "int8" /\ ~builder.platform_has_fast_int8) =>
              hist.attached = 0 /\ ~config.int8_calibrator
        /\ args.precision = "fp32" =>
              hist.attached = 0 /\ ~config.int8_calibrator

C4_Witness ==
    /\ pc = "done"
    /\ args.precision = "int8"
    /\ builder.platform_has_fast_int8
    /\ hist.attached = 1

\* C5: when the platform lacks the requested fp16 or int8 support,
\* create_engine does not fail in its precision step: no precision flag is
\* set, no calibrator attached, no batch source bound, the backend build is
\* invoked, and the config it receives is the one an fp32 request produces
PrecisionUnsupported ==
    \/ args.precision = "fp16" /\ ~builder.platform_has_fast_fp16
    \/ args.precision = "int8" /\ ~builder.platform_has_fast_int8

C5_UnsupportedBuildsAsFp32 ==
    (Entered("create_engine") /\ (PrecisionUnsupported \/ args.precision = "fp32")) =>
        /\ hist.build_calls = 1
        /\ hist.build_config = << [ flags |-> {"STRICT_TYPES"},
                                    int8_calibrator |-> FALSE ] >>
        /\ config = hist.build_config[1]
        /\ hist.attached = 0
        /\ hist.batchers_made = 0 /\ ~calibrator.image_batcher

C5_Witness ==
    /\ pc = "done"
    /\ Entered("create_engine")
    /\ args.precision = "int8"
    /\ ~builder.platform_has_fast_int8

\* C6: when the backend returns no engine, create_engine fails after a single
\* build call and the engine path holds what it held before: nothing was
\* opened, truncated or written there
C6_BuildFailureWritesNothing ==
    (pc = "failed" /\ Entered("build_engine")) =>
        /\ hist.build_calls = 1
        /\ hist.engine_writes = 0
        /\ ~Entered("serialize")
        /\ engine_file \in {"absent", "stale"}
        /\ exit_code # 0

C6_Witness ==
    /\ pc = "failed"
    /\ Entered("build_engine")
    /\ engine_file = "absent"

\* C7: int8 requested with neither a calibration image directory nor a
\* calibration cache path supplied: the program exits with code 1 in
\* pre-flight validation, before the builder or anything else is created
C7_Int8WithoutCalibrationExits ==
    ( /\ pc \notin {"parse_args", "validate"}
      /\ argv.precision = "int8"
      /\ argv.calib_input = None
      /\ argv.calib_cache = None ) =>
        /\ pc = "exit" /\ exit_code = 1
        /\ ~builder.created /\ ~network.created
        /\ hist = NoHist

ParseFailed == pc = "exit" /\ Entered("create_network")

C9_ParseFailureSurfacesAllErrors ==
    ParseFailed =>
        /\ exit_code # 0
        /\ Len(errlog) = parser_errors + 1
        /\ errlog[1] = FailedToLoad
        /\ \A e \in 0..(parser_errors - 1) : errlog[e + 2] = ParserError(e)
        /\ hist.steps = << "create_network" >>
        /\ config.flags = {} /\ ~config.int8_calibrator
        /\ \A i \in DOMAIN network.layers : network.layers[i].precision = "UNSET"
        /\ hist.build_calls = 0 /\ hist.engine_writes = 0
        /\ engine_file \in {"absent", "stale"}

C9_Witness ==
    /\ ParseFailed
    /\ parser_errors >= 2

\* C10: set_mixed_precision forces a layer to FLOAT if and only if its name
\* contains, case-sensitively, one of modulated_conv/Pow,
\* modulated_conv/ReduceSum, modulated_conv/Add, modulated_conv/Sqrt,
\* modulated_conv/Div; every other layer keeps its precision, in every
\* precision mode
ConfiguredFragments == { FragPow, FragReduceSum, FragAdd, FragSqrt, FragDiv }

C10_MixedPrecisionByFragment ==
    [][ pc = "set_mixed_precision" =>
          /\ DOMAIN network'.layers = DOMAIN network.layers
          /\ \A i \in DOMAIN network.layers :
                /\ network'.layers[i].name = network.layers[i].name
                /\ network'.layers[i].precision =
                      IF \E f \in ConfiguredFragments : StrIn(f, network.layers[i].name)
                         THEN "FLOAT"
                         ELSE network.layers[i].precision ]_vars

C10_Witness ==
    /\ Entered("set_mixed_precision")
    /\ \E i, j \in DOMAIN network.layers :
          /\ network.layers[i].precision = "FLOAT"
          /\ network.layers[j].precision = "UNSET"
          /\ network.layers[j].name = ModulatedConv \o <<"/","p","o","w">>


\* C13: for fp32 the precision step of create_engine sets no flag and
\* attaches no calibrator: the config handed to build_engine has exactly the
\* flags and the calibrator handle it had before the step
C13_Fp32LeavesConfig ==
    [][ (pc = "create_engine" /\ args.precision = "fp32") =>
          /\ config' = config
          /\ hist'.attached = hist.attached
          /\ hist'.build_config = << config >>
          /\ calibrator' = calibrator ]_vars

C13_Witness ==
    /\ pc = "build"
    /\ args.precision = "fp32"
    /\ hist.build_config = << [ flags |-> {"STRICT_TYPES"},
                                int8_calibrator |-> FALSE ] >>

\* C16: the steps of main happen in the order parse, layer overrides,
\* precision and calibrator configuration, backend build, serialization; the
\* backend build is invoked at most once, with the one config; the engine
\* file is written only when the parse succeeded and the backend returned an
\* engine; a failure ends the run and no later step executes
StepOrder ==
    << "create_network", "print_layer_info", "set_mixed_precision",
       "create_engine", "build_engine", "serialize" >>

C16_OrchestrationOrder ==
    /\ Len(hist.steps) <= Len(StepOrder)
    /\ \A i \in DOMAIN hist.steps : hist.steps[i] = StepOrder[i]
    /\ hist.build_calls <= 1
    /\ Len(hist.build_config) = hist.build_calls
    /\ hist.build_calls = 1 => hist.build_config[1] = config
    /\ hist.engine_writes <= 1
    /\ (hist.engine_writes = 1 \/ engine_file = "engine") =>
          /\ pc = "done" /\ exit_code = 0
          /\ errlog = << >>
          /\ hist.steps = StepOrder
    /\ exit_code # 0 =>
          /\ pc \in {"exit", "failed"}
          /\ ~Entered("serialize")
          /\ ~ENABLED Next

C16_Witness ==
    /\ pc = "done"
    /\ hist.steps = StepOrder
    /\ args.precision = "int8"
    /\ engine_file = "engine"

\* C17: whenever build_engine is invoked with a calibrator attached, the
\* calibrator has a data source: a batch source is bound if and only if the
\* cache file did not exist when create_engine checked, so no calibrator
\* answers None to read_calibration_cache and, for want of a source, None to
\* its first get_batch
C17_CalibratorHasDataSource ==
    (Entered("build_engine") /\ config.int8_calibrator) =>
        /\ SourceBound <=> hist.cache_at_check = "absent"
        /\ ~SourceBound <=> hist.cache_at_check = "present"
        /\ calibrator.image_batcher = calibrator.generator
        /\ \A i \in DOMAIN hist.cache_reads :
              hist.cache_reads[i].found <=> hist.cache_at_check = "present"
        /\ ~( /\ \E i \in DOMAIN hist.cache_reads : ~hist.cache_reads[i].found
              /\ ~calibrator.image_batcher
              /\ hist.batch_returns # << >>
              /\ hist.batch_returns[1] = NoAddr )

C17_Witness ==
    /\ pc = "build"
    /\ config.int8_calibrator
    /\ hist.cache_at_check = "absent"
    /\ SourceBound
    /\ hist.source_batches = 0
    /\ hist.cache_reads # << >>
    /\ hist.batch_returns = << NoAddr >>

(***************************************************************************)
(* C18: the verbose toggle has no effect on the builder's logger.  For     *)
(* verbose set and not set EngineBuilder constructs a logger of minimum    *)
(* severity VERBOSE; for any sequence of backend messages the two runs     *)
(* record the same messages, those whose severity value is >= VERBOSE,     *)
(* each as one line appended to the log file when a log path is set (and   *)
(* passed to log.info otherwise).                                          *)
(***************************************************************************)
RECURSIVE KeptMessages(_)
\* the messages of a sequence of log calls whose severity value is >= VERBOSE
KeptMessages(received) ==
    IF received = << >> THEN << >>
    ELSE LET rest == KeptMessages(SubSeq(received, 1, Len(received) - 1))
             last == received[Len(received)]
         IN IF last.severity >= VERBOSE THEN Append(rest, last.msg) ELSE rest

C11_CacheRoundTrip ==
    /\ \A i \in DOMAIN hist.cache_reads :
          LET rd == hist.cache_reads[i]
          IN /\ rd.writes > 0 =>
                   /\ rd.found
                   /\ rd.content = hist.cache_writes[rd.writes].cache
             /\ ~rd.existed => (~rd.found /\ rd.content = << >>)
             /\ rd.writes > 0 => rd.existed
    /\ Len(hist.cache_writes) > 0 =>
          cache_file = [ exists |-> TRUE,
                         content |-> hist.cache_writes[Len(hist.cache_writes)].cache ]

\* a read with no file that returned None, then two writes of different
\* bytes over it, then a read that returned the bytes of the second
C11_Witness ==
    /\ pc = "cache"
    /\ Len(hist.cache_reads) = 2 /\ Len(hist.cache_writes) = 2
    /\ ~hist.cache_reads[1].existed /\ ~hist.cache_reads[1].found
    /\ hist.cache_writes[1].cache = <<2, 3>>
    /\ hist.cache_writes[2].cache = <<1>>
    /\ hist.cache_reads[2].writes = 2
    /\ hist.cache_reads[2].content = <<1>>

(***************************************************************************)
(* C12: a bound batch source whose data does not match the batch           *)
(* descriptor it declares is rejected when it is bound: set_image_batcher  *)
(* raises, so no malformed source is ever left bound with its generator    *)
(* started, and get_batch never fails on a batch in the middle of the      *)
(* stream.                                                                 *)
(***************************************************************************)
C12_MalformedSourceRejectedAtBinding ==
    /\ ~(calibrator.malformed /\ SourceBound)
    /\ hist.batch_errors = 0

(***************************************************************************)
(* C14: get_batch_size returns the bound source's batch size whenever a    *)
(* source is bound and 1 whenever none is, at every point of the           *)
(* calibrator's life: before binding, while streaming, and after the       *)
(* source is exhausted.                                                    *)
(***************************************************************************)
C14_GetBatchSize ==
    \A i \in DOMAIN hist.batch_sizes :
        LET q == hist.batch_sizes[i]
        IN /\ q.bound => (calibrator.image_batcher /\ q.ret = calibrator.batch_size)
           /\ ~q.bound => q.ret = 1

\* the call after get_batch returned None at the end of the stream
SizeAskedAfterExhaustion(q) ==
    /\ q.bound /\ q.remaining = 0 /\ q.calls > 0
    /\ hist.batch_returns[q.calls] = NoAddr

\* one calibrator asked its batch size before binding, with a batch still to
\* come, and after the end of the stream; the source's batch size is not 1
C14_Witness ==
    /\ pc = "calib"
    /\ SourceBound /\ calibrator.batch_size = 2
    /\ Len(hist.batch_sizes) = 3
    /\ ~hist.batch_sizes[1].bound /\ hist.batch_sizes[1].ret = 1
    /\ hist.batch_sizes[2].bound /\ hist.batch_sizes[2].remaining > 0
    /\ hist.batch_sizes[2].ret = 2
    /\ SizeAskedAfterExhaustion(hist.batch_sizes[3])
    /\ hist.batch_sizes[3].ret = 2

(***************************************************************************)
(* C15: the staging buffer is allocated exactly once, by binding the       *)
(* source, with size dtype_size x batch_size x product(shape[1:]) bytes;   *)
(* that size never changes; get_batch allocates nothing, and every         *)
(* get_batch call that returns data returns a one-element list holding     *)
(* that same buffer address, however many input names are requested.       *)
(***************************************************************************)
C15_OneStagingBuffer ==
    /\ Len(hist.alloc_sizes) = hist.allocs
    /\ hist.allocs = (IF SourceBound THEN 1 ELSE 0)
    /\ SourceBound =>
          /\ hist.alloc_sizes[1] = calibrator.itemsize * calibrator.batch_size
                                      * Prod(Tail(calibrator.shape))
          /\ device_mem = { calibrator.batch_allocation }
    /\ \A i \in DOMAIN hist.batch_ptrs :
          hist.batch_ptrs[i].ptrs # << >> =>
              /\ SourceBound
              /\ hist.batch_ptrs[i].ptrs = << calibrator.batch_allocation >>

\* two batches returned from one buffer, one asked for with one input name
\* and one with two
C15_Witness ==
    /\ SourceBound
    /\ hist.alloc_sizes = << 4 * 8 * (3 * 512 * 512) >>
    /\ \E i, j \in DOMAIN hist.batch_ptrs :
          /\ i < j
          /\ hist.batch_ptrs[i].names = 1 /\ hist.batch_ptrs[i].ptrs # << >>
          /\ hist.batch_ptrs[j].names = 2
          /\ hist.batch_ptrs[j].ptrs = hist.batch_ptrs[i].ptrs

====
